---- MODULE Spec2Model ----
(***************************************************************************)
(* score.db: SessionMixin.by_ids (src/score/db/_session.py), the chunked,  *)
(* order-aware lookup of records by identifier, with its temporary-table   *)
(* sort.  One behaviour is one call of by_ids, consumed to exhaustion by   *)
(* its caller: by_ids is a generator, so every action below is one piece   *)
(* of the generator's body between two database round trips.               *)
(***************************************************************************)
EXTENDS Integers, Sequences, FiniteSets, TLC

\* ------------------------------------------------------------- bounds
MaxId == 3
MaxLen == 3
MaxYieldPer == 2

\* 'tmp%d' % ((now * 1000) % 10**8)
TmpModulus == 100000000

Ids == 1..MaxId
\* values of the column the custom order expression sorts by
Names == {1, 2}
NoRow == 0
NoId == 0
NoTable == <<>>
NoGen == <<>>
YieldPers == 1..MaxYieldPer
\* order=None, order='_ids', order=<an sqlalchemy expression>
Orders == {"None", "_ids", "expr"}
\* what datetime.now().timestamp() * 1000 can be
ClockValues == {0, 1, TmpModulus}
TypeTable == <<"_user">>

VARIABLES
    store,          \* the table of `type`: id -> its row's name, or NoRow
    ids0,           \* by_ids' argument ids, as the caller passed it
    order,          \* by_ids' argument order
    yield_per,      \* by_ids' argument yield_per
    ignore_missing, \* by_ids' argument ignore_missing
    ids,            \* the local variable ids (what is left of it)
    pc,             \* where the generator stands
    yielded,        \* the records the caller has received so far
    stmts,          \* the statements sent to the database, in order
    outcome,        \* how the generator ended
    carried,        \* the identifier IdNotFound carries
    metadata,       \* the keys of Base.metadata.tables
    dbtables,       \* the temporary tables that exist in the database
    tmp,            \* TemporaryTableCreator.table
    tmprows,        \* the rows of the temporary table
    sorted_ids,     \* the local variable sorted_ids
    pending,        \* the exception travelling through the with block
    retgen,         \* the value of the generator's return statement
    sessions,       \* the by_ids calls of the sessions that run concurrently
    temprows,       \* the rows of the database's temporary tables, by table
    classes,        \* Base's class tree: what __subclasses__() walks, in definition order
    regresult,      \* how the latest class statement ended
    ddl,            \* the statements create() has executed, in order
    views,          \* the views of the database
    triggers,       \* the triggers of the database
    passes,         \* the number of create() calls made
    snapshot,       \* the views and triggers as the first create() left them
    raised,         \* the exception the latest create() raised
    tablerows,      \* the rows of the tables of the classes: <<table, id>>
    fired,          \* the deleted rows whose AFTER DELETE trigger has yet to run
    deleted,        \* the row the latest DELETE statement named
    cascaded        \* the rows the triggers have deleted for that statement

vars == <<store, ids0, order, yield_per, ignore_missing, ids, pc, yielded,
          stmts, outcome, carried, metadata, dbtables, tmp, tmprows,
          sorted_ids, pending, retgen, sessions, temprows, classes, regresult,
          ddl, views, triggers, passes, snapshot, raised,
          tablerows, fired, deleted, cascaded>>

\* the state of the concurrent calls, and of the class tree and its schema
concvars == <<sessions, temprows>>
schemavars == <<classes, regresult, ddl, views, triggers, passes, snapshot, raised>>

\* the rows of the tables of the classes and the cascade of a DELETE
rowvars == <<tablerows, fired, deleted, cascaded>>

\* the state of the operations other than the single by_ids call
othervars == <<concvars, schemavars, rowvars>>

\* the sessions whose calls run at the same time
Sessions == {1, 2}

\* no call is running in any session
NoSessions ==
    /\ sessions = [s \in Sessions |-> <<>>]
    /\ temprows = {}

NoDelete == <<>>

\* no table of a class holds a row
NoRows ==
    /\ tablerows = {}
    /\ fired = {}
    /\ deleted = NoDelete
    /\ cascaded = {}

\* no class is declared and create() has not run
NoSchema ==
    /\ NoRows
    /\ classes = <<>>
    /\ regresult = "none"
    /\ ddl = <<>>
    /\ views = {}
    /\ triggers = {}
    /\ passes = 0
    /\ snapshot = <<>>
    /\ raised = "none"

\* ------------------------------------------------------------ helpers
Range(s) == {s[k] : k \in 1..Len(s)}

SeqsUpTo(S, n) == UNION {[1..m -> S] : m \in 0..n}

Min(S) == CHOOSE x \in S : \A y \in S : x <= y

\* every order in which the rows of a set can come back
Perms(S) == {s \in [1..Cardinality(S) -> S] : \A i, j \in 1..Cardinality(S) : s[i] = s[j] => i = j}

\* the mapped object of the row with identifier i
rec(i) == [id |-> i, name |-> store[i]]

Exists(i) == store[i] # NoRow

\* ------------------------------------------------- by_ids: pure parts
\* a chunk one identifier too long: ids[0:yield_per + 1]
Chunk_one_more(l, n) == SubSeq(l, 1, IF Len(l) < n + 1 THEN Len(l) ELSE n + 1)

\* where a slice bound n falls in a list: a negative bound counts from the
\* end, and every bound is clipped to the list
slice_index(l, n) ==
    IF n < 0 THEN (IF Len(l) + n < 0 THEN 0 ELSE Len(l) + n)
    ELSE IF Len(l) < n THEN Len(l) ELSE n

\* ids[0:yield_per]
Chunk(l, n) == SubSeq(l, 1, slice_index(l, n))

\* the next chunk starts one identifier too far: ids[yield_per + 1:]
RestIds_skip_one(l, n) == SubSeq(l, n + 2, Len(l))

\* ids[yield_per:]
RestIds(l, n) == SubSeq(l, slice_index(l, n) + 1, Len(l))

\* the rows that "id IN (chunk)" selects: each matching row once
InQuery(chunk) == {i \in Range(chunk) : Exists(i)}

\* the orders in which "ORDER BY <expression>" can return the rows of S
\* (rows with equal keys in any order)
OrderedBy(S) == {s \in Perms(S) : \A j, k \in 1..Len(s) : j < k => store[s[j]] <= store[s[k]]}

\* a query result is a dict of id to object, or a list of objects
DictResult(f) == [isdict |-> TRUE, val |-> f]
ListResult(s) == [isdict |-> FALSE, val |-> s]
Objects(s) == [k \in 1..Len(s) |-> rec(s[k])]

\* len(result)
len(result) == IF result.isdict THEN Cardinality(DOMAIN result.val) ELSE Len(result.val)

\* list(result.keys()), or list(map(lambda o: o.id, result)), as what "in" sees
found_ids(result) ==
    IF result.isdict THEN DOMAIN result.val
    ELSE {result.val[k].id : k \in 1..Len(result.val)}

\* next(id for id in ids if id not in found); NoId when the generator
\* expression is exhausted, where next() raises StopIteration
first_missing(l, found) ==
    LET miss == {k \in 1..Len(l) : l[k] \notin found}
    IN  IF miss = {} THEN NoId ELSE l[Min(miss)]

NoExc == [kind |-> "none", id |-> NoId]
Exc(kind, i) == [kind |-> kind, id |-> i]

\* raise IdNotFound(first_missing), with first_missing computed by next()
raise_first_missing(l, found) ==
    LET fm == first_missing(l, found)
    IN  IF fm = NoId THEN Exc("StopIteration", NoId) ELSE Exc("IdNotFound", fm)

\* a test that only notices an empty result
test_missing_only_empty(l, result) ==
    IF ignore_missing THEN NoExc
    ELSE IF len(result) > 0 \/ Len(l) = 0 THEN NoExc
    ELSE raise_first_missing(l, found_ids(result))

\* the closure test_missing: what it raises, or NoExc when it returns
test_missing(l, result) ==
    IF ignore_missing THEN NoExc
    ELSE IF len(result) = Len(l) THEN NoExc
    ELSE raise_first_missing(l, found_ids(result))

\* the objects in the order of the dict's keys: (result[id] for id in sorted(result))
yield_in_key_order(chunk, result) ==
    LET RECURSIVE asc(_)
        asc(S) == IF S = {} THEN <<>> ELSE <<result[Min(S)]>> \o asc(S \ {Min(S)})
    IN  asc(DOMAIN result)

\* (result[id] for id in chunk if id in result)
yield_in_request_order(chunk, result) ==
    LET kept == SelectSeq(chunk, LAMBDA i : i \in DOMAIN result)
    IN  [k \in 1..Len(kept) |-> result[kept[k]]]

\* if len(ids) < yield_per
use_single_query_strict(l, n) == Len(l) < n

\* if len(ids) <= yield_per: one query does
use_single_query(l, n) == Len(l) <= n

\* 'tmp%d' % ((datetime.now().timestamp() * 1000) % 10**8)
tmp_name(now) == <<"tmp", now % TmpModulus>>

\* 'temp.%s' % name
temp_name(name) == <<"temp.">> \o name

Stmt(kind, l) == [kind |-> kind, ids |-> l]

\* a drop that looks for the table under its name before 'temp.' was put
\* in front of it
drop_all_unprefixed(tables, t) == tables \ {Tail(t)}

\* metadata.drop_all(tables=[self.table]): the table leaves the database
drop_all(tables, t) == tables \ {t}

\* ----------------------------------------------------------- by_ids
Init ==
    /\ store \in [Ids -> Names \cup {NoRow}]
    /\ ids0 \in SeqsUpTo(Ids, MaxLen)
    /\ order \in Orders
    /\ yield_per \in YieldPers
    /\ ignore_missing \in BOOLEAN
    /\ ids = ids0
    /\ pc = "run"
    /\ yielded = <<>>
    /\ stmts = <<>>
    /\ outcome = "running"
    /\ carried = NoId
    /\ metadata = {TypeTable}
    /\ dbtables = {}
    /\ tmp = NoTable
    /\ tmprows = {}
    /\ sorted_ids = <<>>
    /\ pending = NoExc
    /\ retgen = NoGen
    /\ NoSessions
    /\ NoSchema

\* An exception leaves the generator.  A StopIteration that reaches the
\* generator's frame ends it silently on interpreters before PEP 479 took
\* effect, and becomes a RuntimeError afterwards.
Raises(e) ==
    /\ pc' = "done"
    /\ \E pep479 \in BOOLEAN :
         outcome' = IF e.kind = "StopIteration"
                    THEN (IF pep479 THEN "RuntimeError" ELSE "StopIteration")
                    ELSE e.kind
    /\ carried' = e.id

Returns ==
    /\ pc' = "done"
    /\ outcome' = "returned"
    /\ carried' = NoId

tmpvars == <<metadata, dbtables, tmp, tmprows, sorted_ids, pending, retgen>>
argvars == <<store, ids0, order, yield_per, ignore_missing>>

\* more queries than a call needs that shortens ids with every query
MaxQueries == MaxLen + 1

\* the statements of the while loops as the database has seen them: the
\* latest MaxQueries of them
latest_stmts(s, q) == IF Len(s) < MaxQueries THEN Append(s, q) ELSE Append(Tail(s), q)

\* order is None: one pass of the while loop
Unordered_chunk ==
    /\ pc = "run" /\ order = "None" /\ Len(ids) > 0
    /\ LET chunk == Chunk(ids, yield_per) IN
       /\ ids' = RestIds(ids, yield_per)
       /\ stmts' = latest_stmts(stmts, Stmt("select", chunk))
       /\ \E rows \in Perms(InQuery(chunk)) :
            LET objects == Objects(rows)
                e == test_missing(chunk, ListResult(objects))
            IN  IF e = NoExc
                THEN /\ yielded' = yielded \o objects
                     /\ UNCHANGED <<pc, outcome, carried>>
                ELSE /\ Raises(e)
                     /\ UNCHANGED yielded
    /\ UNCHANGED <<othervars, argvars, tmpvars>>

\* order is None: the loop is over, return
Unordered_return ==
    /\ pc = "run" /\ order = "None" /\ Len(ids) = 0
    /\ Returns
    /\ UNCHANGED <<othervars, argvars, tmpvars, ids, yielded, stmts>>

\* order == '_ids': one pass of the while loop
ByRequestOrder_chunk ==
    /\ pc = "run" /\ order = "_ids" /\ Len(ids) > 0
    /\ LET chunk == Chunk(ids, yield_per)
           result == [i \in InQuery(chunk) |-> rec(i)]
           e == test_missing(chunk, DictResult(result))
       IN
       /\ ids' = RestIds(ids, yield_per)
       /\ stmts' = latest_stmts(stmts, Stmt("select", chunk))
       /\ IF e = NoExc
          THEN /\ yielded' = yielded \o yield_in_request_order(chunk, result)
               /\ UNCHANGED <<pc, outcome, carried>>
          ELSE /\ Raises(e)
               /\ UNCHANGED yielded
    /\ UNCHANGED <<othervars, argvars, tmpvars>>

\* order == '_ids': the loop is over, return
ByRequestOrder_return ==
    /\ pc = "run" /\ order = "_ids" /\ Len(ids) = 0
    /\ Returns
    /\ UNCHANGED <<othervars, argvars, tmpvars, ids, yielded, stmts>>

\* a custom order and len(ids) <= yield_per: a single sorted query
ByExpression_single ==
    /\ pc = "run" /\ order = "expr" /\ use_single_query(ids, yield_per)
    /\ stmts' = Append(stmts, Stmt("select", ids))
    /\ \E rows \in OrderedBy(InQuery(ids)) :
         LET objects == Objects(rows)
             e == test_missing(ids, ListResult(objects))
         IN  IF e = NoExc
             THEN /\ yielded' = yielded \o objects
                  /\ Returns
             ELSE /\ Raises(e)
                  /\ UNCHANGED yielded
    /\ UNCHANGED <<othervars, argvars, tmpvars, ids>>

\* with self.mktmp(tmpcols) as tmp: TemporaryTableCreator.__enter__.
\* The name is drawn from the clock until 'tmp<n>' is no key of
\* metadata.tables; the table is then registered as 'temp.tmp<n>'.
\* Table() refuses a key that metadata already holds.
mktmp_enter ==
    /\ pc = "run" /\ order = "expr" /\ ~use_single_query(ids, yield_per)
    /\ \E now \in ClockValues :
         /\ tmp_name(now) \notin metadata
         /\ LET name == temp_name(tmp_name(now)) IN
            IF name \in metadata
            THEN /\ Raises(Exc("InvalidRequestError", NoId))
                 /\ UNCHANGED <<metadata, dbtables, tmp, stmts>>
            ELSE /\ metadata' = metadata \cup {name}
                 /\ dbtables' = dbtables \cup {name}
                 /\ tmp' = name
                 /\ stmts' = Append(stmts, Stmt("create", <<>>))
                 /\ pc' = "insert"
                 /\ UNCHANGED <<outcome, carried>>
    /\ UNCHANGED <<othervars, argvars, ids, yielded, tmprows, sorted_ids, pending, retgen>>

\* one pass of the insert loop; id is the temporary table's primary key
tmp_insert ==
    /\ pc = "insert" /\ Len(ids) > 0
    /\ LET chunk == Chunk(ids, yield_per) IN
       /\ ids' = RestIds(ids, yield_per)
       /\ stmts' = Append(stmts, Stmt("insert", chunk))
       /\ IF Cardinality(Range(chunk)) < Len(chunk) \/ Range(chunk) \cap tmprows # {}
          THEN /\ pending' = Exc("IntegrityError", NoId)
               /\ pc' = "exit"
               /\ UNCHANGED tmprows
          ELSE /\ tmprows' = tmprows \cup Range(chunk)
               /\ UNCHANGED <<pc, pending>>
    /\ UNCHANGED <<othervars, argvars, yielded, outcome, carried, metadata, dbtables, tmp,
                   sorted_ids, retgen>>

\* the join of the temporary table with the type's table, sorted by the
\* expression, and the test for missing ids after it.  The on clause reads
\* tmp.ref, while the table's only column is named id: the attribute
\* lookup either fails or resolves to that column.  The rows of
\* query(type.id) are 1-tuples.
tmp_sort ==
    /\ pc = "insert" /\ Len(ids) = 0
    /\ \E ref_resolves \in BOOLEAN :
         IF ~ref_resolves
         THEN /\ pending' = Exc("AttributeError", NoId)
              /\ UNCHANGED <<stmts, sorted_ids>>
         ELSE /\ stmts' = Append(stmts, Stmt("join", <<>>))
              /\ \E rows \in OrderedBy({i \in tmprows : Exists(i)}) :
                   /\ sorted_ids' = [k \in 1..Len(rows) |-> <<rows[k]>>]
                   /\ pending' = IF ~ignore_missing /\ Len(ids) # Len(rows)
                                 THEN raise_first_missing(ids, Range(sorted_ids'))
                                 ELSE NoExc
    /\ pc' = "exit"
    /\ UNCHANGED <<othervars, argvars, ids, yielded, outcome, carried, metadata, dbtables,
                   tmp, tmprows, retgen>>

\* TemporaryTableCreator.__exit__, then either the exception goes on or
\* the generator returns the generator of the inner by_ids call, which
\* nothing iterates
mktmp_exit ==
    /\ pc = "exit"
    /\ dbtables' = drop_all(dbtables, tmp)
    /\ stmts' = Append(stmts, Stmt("drop", <<>>))
    /\ IF pending # NoExc
       THEN /\ Raises(pending)
            /\ UNCHANGED retgen
       ELSE /\ Returns
            /\ retgen' = [ids |-> sorted_ids, order |-> "_id",
                          yield_per |-> yield_per, ignore_missing |-> ignore_missing]
    /\ UNCHANGED <<othervars, argvars, ids, yielded, metadata, tmp, tmprows, sorted_ids, pending>>

Next ==
    \/ Unordered_chunk
    \/ Unordered_return
    \/ ByRequestOrder_chunk
    \/ ByRequestOrder_return
    \/ ByExpression_single
    \/ mktmp_enter
    \/ tmp_insert
    \/ tmp_sort
    \/ mktmp_exit

Spec == Init /\ [][Next]_vars

\* ---------------------------------- by_ids with any integer yield_per
\* the smallest chunk size passed
MinYieldPer == -1

InitLive ==
    /\ store \in [Ids -> Names \cup {NoRow}]
    /\ ids0 \in SeqsUpTo(Ids, MaxLen)
    /\ order \in {"None", "_ids"}
    /\ yield_per \in MinYieldPer..MaxYieldPer
    /\ ignore_missing \in BOOLEAN
    /\ ids = ids0
    /\ pc = "run"
    /\ yielded = <<>>
    /\ stmts = <<>>
    /\ outcome = "running"
    /\ carried = NoId
    /\ metadata = {TypeTable}
    /\ dbtables = {}
    /\ tmp = NoTable
    /\ tmprows = {}
    /\ sorted_ids = <<>>
    /\ pending = NoExc
    /\ retgen = NoGen
    /\ NoSessions
    /\ NoSchema

\* the consumer takes the next object for as long as the generator has
\* one
NextLive ==
    \/ Unordered_chunk
    \/ Unordered_return
    \/ ByRequestOrder_chunk
    \/ ByRequestOrder_return

\* every query returns and the consumer goes on asking
SpecLive == InitLive /\ [][NextLive]_vars /\ WF_vars(NextLive)

\* ------------------------------------- sequential temporary-table calls
\* Calls of by_ids that take the temporary-table path, one after the other
\* on sessions of one configuration: Base.metadata and the database are
\* what one call leaves to the next.
IsTmpCall(l, n) == ~use_single_query(l, n) /\ Cardinality(Range(l)) = Len(l)

InitSeq ==
    /\ Init
    /\ order = "expr"
    /\ ignore_missing
    /\ IsTmpCall(ids0, yield_per)

\* the next call: by_ids(type, ids, order=<expression>, yield_per=n)
by_ids_again ==
    /\ pc = "done"
    /\ \E l \in SeqsUpTo(Ids, MaxLen), n \in YieldPers :
         /\ IsTmpCall(l, n)
         /\ ids0' = l
         /\ ids' = l
         /\ yield_per' = n
    /\ pc' = "run"
    /\ yielded' = <<>>
    /\ stmts' = <<>>
    /\ outcome' = "running"
    /\ carried' = NoId
    /\ tmp' = NoTable
    /\ tmprows' = {}
    /\ sorted_ids' = <<>>
    /\ pending' = NoExc
    /\ retgen' = NoGen
    /\ UNCHANGED <<othervars, store, order, ignore_missing, metadata, dbtables>>

NextSeq ==
    \/ mktmp_enter
    \/ tmp_insert
    \/ tmp_sort
    \/ mktmp_exit
    \/ by_ids_again

SpecSeq == InitSeq /\ [][NextSeq]_vars

\* ------------------------------------- concurrent temporary-table calls
\* Two sessions of one configuration run by_ids on the temporary-table path
\* in two threads.  Base.metadata and the database are shared; the local
\* variables of by_ids and the TemporaryTableCreator are each call's own.
callvars == <<ids0, order, yield_per, ignore_missing, ids, pc, yielded, stmts,
              outcome, carried, tmp, tmprows, sorted_ids, pending, retgen>>

\* no single call is running
NoCall ==
    /\ ids0 = <<>> /\ ids = <<>>
    /\ order = "expr" /\ yield_per = 1 /\ ignore_missing = TRUE
    /\ pc = "done" /\ outcome = "returned" /\ carried = NoId
    /\ yielded = <<>> /\ stmts = <<>>
    /\ tmp = NoTable /\ tmprows = {} /\ sorted_ids = <<>>
    /\ pending = NoExc /\ retgen = NoGen

\* the call of a session: by_ids(type, l, order=<expression>, yield_per=n)
Call(l, n) ==
    [pc |-> "enter", ids0 |-> l, ids |-> l, yield_per |-> n, name |-> NoTable,
     table |-> NoTable, seen |-> {}, pending |-> "none", outcome |-> "running"]

InitConc ==
    /\ store \in [Ids -> Names \cup {NoRow}]
    /\ metadata = {TypeTable}
    /\ dbtables = {}
    /\ temprows = {}
    /\ NoCall
    /\ NoSchema
    /\ \E n \in YieldPers :
         sessions \in [Sessions -> {Call(l, n) : l \in {x \in SeqsUpTo(Ids, MaxLen) : IsTmpCall(x, n)}}]

\* the rows of table t
rows_of(t) == {r[2] : r \in {x \in temprows : x[1] = t}}

\* __enter__ up to the lookup Table() makes of the key in the metadata
c_enter(s) ==
    /\ sessions[s].pc = "enter"
    /\ \E now \in ClockValues :
         /\ tmp_name(now) \notin metadata
         /\ IF temp_name(tmp_name(now)) \in metadata
            THEN sessions' = [sessions EXCEPT ![s].pc = "done",
                                              ![s].outcome = "InvalidRequestError"]
            ELSE sessions' = [sessions EXCEPT ![s].pc = "register",
                                              ![s].name = temp_name(tmp_name(now))]
    /\ UNCHANGED <<store, metadata, dbtables, temprows, callvars, schemavars, rowvars>>

\* the rest of __enter__: Table() adds the key, create_all creates the
\* table unless the database has it
c_register(s) ==
    /\ sessions[s].pc = "register"
    /\ metadata' = metadata \cup {sessions[s].name}
    /\ dbtables' = dbtables \cup {sessions[s].name}
    /\ sessions' = [sessions EXCEPT ![s].pc = "insert",
                                    ![s].table = sessions[s].name]
    /\ UNCHANGED <<store, temprows, callvars, schemavars, rowvars>>

\* one pass of the insert loop
c_insert(s) ==
    LET me == sessions[s]
        chunk == Chunk(me.ids, me.yield_per)
    IN  /\ me.pc = "insert" /\ Len(me.ids) > 0
        /\ IF me.table \notin dbtables
           THEN /\ sessions' = [sessions EXCEPT ![s].pc = "exit",
                                                ![s].pending = "OperationalError"]
                /\ UNCHANGED temprows
           ELSE IF Range(chunk) \cap rows_of(me.table) # {}
           THEN /\ sessions' = [sessions EXCEPT ![s].pc = "exit",
                                                ![s].pending = "IntegrityError"]
                /\ UNCHANGED temprows
           ELSE /\ temprows' = temprows \cup {<<me.table, i>> : i \in Range(chunk)}
                /\ sessions' = [sessions EXCEPT ![s].ids = RestIds(me.ids, me.yield_per)]
        /\ UNCHANGED <<store, metadata, dbtables, callvars, schemavars, rowvars>>

\* the sorting query: the identifiers the join with the table returns
c_sort(s) ==
    LET me == sessions[s] IN
    /\ me.pc = "insert" /\ Len(me.ids) = 0
    /\ \E ref_resolves \in BOOLEAN :
         IF ~ref_resolves
         THEN sessions' = [sessions EXCEPT ![s].pc = "exit",
                                           ![s].pending = "AttributeError"]
         ELSE IF me.table \notin dbtables
         THEN sessions' = [sessions EXCEPT ![s].pc = "exit",
                                           ![s].pending = "OperationalError"]
         ELSE sessions' = [sessions EXCEPT ![s].pc = "exit",
                                           ![s].seen = {i \in rows_of(me.table) : Exists(i)}]
    /\ UNCHANGED <<store, metadata, dbtables, temprows, callvars, schemavars, rowvars>>

\* __exit__: drop_all drops the table if the database has it
c_exit(s) ==
    LET me == sessions[s] IN
    /\ me.pc = "exit"
    /\ dbtables' = drop_all(dbtables, me.table)
    /\ temprows' = {r \in temprows : r[1] # me.table}
    /\ sessions' = [sessions EXCEPT ![s].pc = "done",
                                    ![s].outcome = IF me.pending = "none"
                                                   THEN "returned" ELSE me.pending]
    /\ UNCHANGED <<store, metadata, callvars, schemavars, rowvars>>

NextConc ==
    \/ \E s \in Sessions : c_enter(s)
    \/ \E s \in Sessions : c_register(s)
    \/ \E s \in Sessions : c_insert(s)
    \/ \E s \in Sessions : c_sort(s)
    \/ \E s \in Sessions : c_exit(s)

SpecConc == InitConc /\ [][NextConc]_vars

\* ------------------------------------------- the declarative base class
MaxClasses == 3

\* Base itself, as the parent of a class and where a parent is None
Base == 0

\* the names of the classes, in the order of their class statements
ClassNames == 1..MaxClasses

\* what a class statement says in __score_db__; "absent" is a key not given
DeclInheritance == {"absent", "single-table", "none"}
DeclTypeColumn == {"absent", "kind"}

\* a type_name that __score_db__ does not hold
NoTypeName == <<>>

cls2tbl(classname) == <<"_", classname>>

\* the type names a class statement gives: none, or the one that is the
\* default of the first class
DeclTypeName == {NoTypeName, Tail(cls2tbl(1))}

\* the class statements create() is followed on: inheritance and
\* type_column as declared, one base, no __mapper_args__
Decls == [inheritance : DeclInheritance, type_column : DeclTypeColumn,
          type_name : {NoTypeName}, primary_key : {FALSE}, other_base : {Base}]

\* the class statements registration is followed on: inheritance and
\* type_name as declared, __mapper_args__ with or without a primary_key,
\* and a second base class or none
RegDecls == [inheritance : DeclInheritance, type_column : {"absent"},
             type_name : DeclTypeName, primary_key : BOOLEAN,
             other_base : {Base} \cup ClassNames]

\* the columns a class statement declares
DeclColumns == {{}, {"x"}}

\* no id column
NoColumn == [column |-> FALSE, primary_key |-> FALSE, foreign_key |-> NoTable]

\* the class object of a name
cls(n) == classes[CHOOSE k \in DOMAIN classes : classes[k].name = n]

\* the names of the classes registered with Base
registered == {classes[k].name : k \in {j \in DOMAIN classes : ~classes[j].rejected}}

\* cls.__subclasses__(): the classes whose class statement names n as
\* their base, in definition order
subclasses(n) ==
    LET subs == SelectSeq(classes, LAMBDA c : c.super = n)
    IN  [k \in DOMAIN subs |-> subs[k].name]

ConfigurationError == [error |-> "ConfigurationError"]

\* the bases of a class statement that are subclasses of Base
bases_of(p, decl) == {p, decl.other_base} \ {Base}

\* set_config without its three checks of the parent
set_config_without_checks(n, p, decl) ==
    [error |-> "none",
     parent |-> p,
     inheritance |-> IF decl.inheritance # "absent" THEN decl.inheritance
                     ELSE IF p # Base THEN cls(p).inheritance
                     ELSE "joined-table",
     type_column |-> IF decl.type_column = "absent"
                     THEN "_type" ELSE decl.type_column,
     type_name |-> IF decl.type_name = NoTypeName
                   THEN Tail(cls2tbl(n)) ELSE decl.type_name]

\* the __score_db__ of a class named n declared with parent p
set_config(n, p, decl) ==
    LET declared == decl.inheritance # "absent"
        inheritance == IF p # Base THEN cls(p).inheritance ELSE "joined-table"
    IN  IF Cardinality(bases_of(p, decl)) > 1
        THEN ConfigurationError
        ELSE IF p # Base /\ inheritance = "none"
        THEN ConfigurationError
        ELSE IF p # Base /\ declared /\ decl.inheritance # inheritance
        THEN ConfigurationError
        ELSE [error |-> "none",
              parent |-> p,
              inheritance |-> IF declared THEN decl.inheritance ELSE inheritance,
              type_column |-> IF decl.type_column = "absent"
                              THEN "_type" ELSE decl.type_column,
              type_name |-> IF decl.type_name = NoTypeName
                            THEN Tail(cls2tbl(n)) ELSE decl.type_name]

\* what cls.__score_db__ is on a class whose set_config raised: the dict of
\* the class statement as far as set_config filled it, or, where the class
\* statement has none, the attribute of the base class
leftover_config(p, decl) ==
    IF decl.inheritance # "absent" \/ decl.type_column # "absent"
                                   \/ decl.type_name # NoTypeName
    THEN [parent |-> p, inheritance |-> decl.inheritance,
          type_column |-> decl.type_column, type_name |-> decl.type_name]
    ELSE [parent |-> cls(p).parent, inheritance |-> cls(p).inheritance,
          type_column |-> cls(p).type_column, type_name |-> cls(p).type_name]

\* set_tablename and set_id: every class but a single-table subclass gets
\* a table of its own
has_table(c) == ~c.rejected /\ ~(c.inheritance = "single-table" /\ c.parent # Base)

RECURSIVE table_class(_)
\* the class whose table class_.__table__ is
table_class(n) == IF has_table(cls(n)) THEN n ELSE table_class(cls(n).super)

table_of(n) == cls2tbl(table_class(n))

\* the id column set_id gives a class: none below the root of a single
\* table and none where the mapper arguments name a primary key; else a
\* primary key that references the id of the table of the parent
set_id(p, cfg, decl) ==
    IF cfg.inheritance = "single-table" /\ cfg.parent # Base
    THEN NoColumn
    ELSE IF decl.primary_key
    THEN NoColumn
    ELSE [column |-> TRUE, primary_key |-> TRUE,
          foreign_key |-> IF p # Base THEN table_of(p) ELSE NoTable]

\* the columns of the table of class n: id, the type column of a root with
\* inheritance, the columns of the class, and those of every class mapped
\* to the same table
table_columns(n) ==
    (IF cls(n).id.column THEN {"id"} ELSE {})
    \cup (IF cls(n).parent = Base /\ cls(n).inheritance # "none"
          THEN {cls(n).type_column} ELSE {})
    \cup UNION {cls(m).columns : m \in {r \in registered : table_class(r) = n}}

RECURSIVE attributes(_)
\* the names getattr finds on class n
attributes(n) ==
    IF n = Base THEN {}
    ELSE cls(n).columns
         \cup (IF cls(n).id.column THEN {"id"} ELSE {})
         \cup (IF has_table(cls(n)) /\ cls(n).parent = Base /\ cls(n).inheritance # "none"
               THEN {cls(n).type_column} ELSE {})
         \cup attributes(cls(n).super)

\* the class statements the mapper accepts: a single-table subclass
\* declares no column its table already has
mappable(p, cfg, columns) ==
    (cfg.error = "none" /\ cfg.inheritance = "single-table" /\ p # Base)
        => columns \cap table_columns(table_class(p)) = {}

\* class <n>(<p>): __score_db__ = decl; columns
declare(n, p, decl, columns) ==
    LET cfg == set_config(n, p, decl)
        left == leftover_config(p, decl)
    IN  /\ passes = 0
        /\ Len(classes) < MaxClasses
        /\ n \notin {classes[k].name : k \in DOMAIN classes}
        /\ \A m \in ClassNames : m < n => m \in {classes[k].name : k \in DOMAIN classes}
        /\ p \in {Base} \cup registered
        /\ decl.other_base \in {Base} \cup (registered \ {p})
        /\ decl.other_base # Base => p # Base
        /\ mappable(p, cfg, columns)
        /\ IF cfg.error # "none"
           THEN /\ classes' = Append(classes,
                        [name |-> n, super |-> p, rejected |-> TRUE,
                         bases |-> bases_of(p, decl),
                         primary_key |-> decl.primary_key, id |-> NoColumn,
                         columns |-> columns, parent |-> left.parent,
                         inheritance |-> left.inheritance,
                         type_column |-> left.type_column,
                         type_name |-> left.type_name])
                /\ regresult' = cfg.error
                /\ UNCHANGED metadata
           ELSE /\ classes' = Append(classes,
                        [name |-> n, super |-> p, rejected |-> FALSE,
                         bases |-> bases_of(p, decl),
                         primary_key |-> decl.primary_key, id |-> set_id(p, cfg, decl),
                         columns |-> columns, parent |-> cfg.parent,
                         inheritance |-> cfg.inheritance,
                         type_column |-> cfg.type_column,
                         type_name |-> cfg.type_name])
                /\ regresult' = "registered"
                /\ metadata' = metadata \cup
                        (IF has_table(cfg @@ [rejected |-> FALSE])
                         THEN {cls2tbl(n)} ELSE {})
        /\ UNCHANGED <<ddl, views, triggers, passes, snapshot, raised>>
        /\ UNCHANGED <<store, dbtables, callvars, concvars, rowvars>>

\* ------------------------------------------------------ create()
NoSelect == [cols |-> {}, from |-> <<>>, where |-> <<>>]

\* Base.metadata.create_all(): the tables it makes sure exist
create_all(tables) == [op |-> "create_all", tables |-> tables]

DropInheritanceTrigger(table) ==
    [op |-> "DropInheritanceTrigger", table |-> table, parent |-> NoTable]
CreateInheritanceTrigger(table, parent) ==
    [op |-> "CreateInheritanceTrigger", table |-> table, parent |-> parent]
DropView(name) == [op |-> "DropView", name |-> name, select |-> NoSelect]
CreateView(name, select) == [op |-> "CreateView", name |-> name, select |-> select]

\* the outcome of a step of create(): the statements it executed and the
\* exception that ended it
Done_(s) == [stmts |-> s, error |-> "none"]
Fail_(s, e) == [stmts |-> s, error |-> e]

RECURSIVE parent_tables(_)
\* the tables of the parents of class n, the nearest first
parent_tables(n) ==
    IF cls(n).parent = Base THEN <<>>
    ELSE <<table_of(cls(n).parent)>> \o parent_tables(cls(n).parent)

\* the farthest parent table instead of the nearest
trigger_parent_farthest(tables) == tables[Len(tables)]

\* the parent table the trigger of a class deletes from
trigger_parent(tables) == tables[1]

\* the trigger statement without the DROP before the CREATE
_create_inheritance_trigger_without_drop(n) ==
    LET tables == parent_tables(n)
    IN  Done_(IF tables # <<>>
              THEN <<CreateInheritanceTrigger(table_of(n), tables[1])>>
              ELSE <<>>)

_create_inheritance_trigger(n) ==
    LET tables == parent_tables(n)
    IN  Done_(<<DropInheritanceTrigger(table_of(n))>>
              \o (IF tables # <<>>
                  THEN <<CreateInheritanceTrigger(table_of(n), trigger_parent(tables))>>
                  ELSE <<>>))

\* add_cols: the columns of the table of class n that cols has no column
\* of the same name for
add_cols(cols, n) ==
    cols \cup {<<c, cls2tbl(n)>> : c \in {x \in table_columns(n) : \A y \in cols : y[1] # x}}

RECURSIVE parent_classes(_)
\* the parents of class n, the nearest first
parent_classes(n) ==
    IF cls(n).parent = Base THEN <<>>
    ELSE <<cls(n).parent>> \o parent_classes(cls(n).parent)

RECURSIVE add_parent_cols(_, _)
add_parent_cols(cols, parents) ==
    IF parents = <<>> THEN cols
    ELSE add_parent_cols(add_cols(cols, table_class(Head(parents))), Tail(parents))

\* the columns of the view of class n: its own table first, then the
\* tables of its parents
view_cols(n) == add_parent_cols(add_cols({}, table_class(n)), parent_classes(n))

RECURSIVE add_typenames(_)
RECURSIVE add_typenames_of(_)
\* the type names of the subclasses in a list, each with its subclasses
add_typenames_of(subs) ==
    IF subs = <<>> THEN <<>>
    ELSE add_typenames(Head(subs)) \o add_typenames_of(Tail(subs))

\* the type name of class n and of every class below it
add_typenames(n) == <<cls(n).type_name>> \o add_typenames_of(subclasses(n))

\* the tables the view of class n joins
view_tables(n) ==
    <<table_of(n)>> \o [k \in DOMAIN parent_classes(n) |-> table_of(parent_classes(n)[k])]

generate_create_inheritance_view_statement(n) ==
    LET c == cls(n)
        typenames == add_typenames(n)
    IN  IF c.inheritance # "single-table"
        THEN Done_(<<CreateView(Tail(cls2tbl(n)),
                     [cols |-> view_cols(n), from |-> view_tables(n), where |-> <<>>])>>)
        ELSE IF c.type_column = "absent"
        THEN Fail_(<<>>, "KeyError")
        ELSE IF c.type_column \notin attributes(n)
        THEN Fail_(<<>>, "AttributeError")
        ELSE IF NoTypeName \in Range(typenames)
        THEN Fail_(<<>>, "KeyError")
        ELSE Done_(<<CreateView(Tail(cls2tbl(n)),
                     [cols |-> view_cols(n), from |-> <<table_of(n)>>,
                      where |-> <<c.type_column, Range(typenames)>>])>>)

_create_inheritance_view(n) ==
    LET dropview == <<DropView(Tail(cls2tbl(n)))>>
    IN  IF cls(n).inheritance = "absent"
        THEN Fail_(dropview, "KeyError")
        ELSE IF cls(n).inheritance # "none"
        THEN LET createview == generate_create_inheritance_view_statement(n)
             IN  Fail_(dropview \o createview.stmts, createview.error)
        ELSE Done_(dropview)

\* the classes create() starts with: those of Base.__subclasses__() whose
\* parent is None
roots(subs) == SelectSeq(subs, LAMBDA n : cls(n).parent = Base)

RECURSIVE next_level(_)
\* [sub for cls in classes for sub in cls.__subclasses__()]
next_level(level) ==
    IF level = <<>> THEN <<>>
    ELSE subclasses(Head(level)) \o next_level(Tail(level))

RECURSIVE processing_order_depth_first(_)
\* every class followed by the classes below it
processing_order_depth_first(level) ==
    IF level = <<>> THEN <<>>
    ELSE <<Head(level)>> \o processing_order_depth_first(subclasses(Head(level)))
                        \o processing_order_depth_first(Tail(level))

RECURSIVE processing_order(_)
\* the classes in the order the while loop of create() takes them
processing_order(level) ==
    IF level = <<>> THEN <<>>
    ELSE level \o processing_order(next_level(level))

\* the body of the for loop of create() for class n
class_statements(n) ==
    LET trigger == _create_inheritance_trigger(n)
        view == _create_inheritance_view(n)
    IN  Fail_(trigger.stmts \o view.stmts, view.error)

RECURSIVE loop_statements(_)
\* the statements create() sends for the classes of a list, up to the
\* first exception
loop_statements(list) ==
    IF list = <<>> THEN Done_(<<>>)
    ELSE LET first == class_statements(Head(list))
         IN  IF first.error # "none" THEN first
             ELSE LET rest == loop_statements(Tail(list))
                  IN  Fail_(first.stmts \o rest.stmts, rest.error)

\* the database after one statement; a CREATE of a name that exists, or on
\* a table that does not, is refused
execute(db, s) ==
    IF s.op = "DropInheritanceTrigger"
    THEN [db EXCEPT !.triggers = {g \in db.triggers : g.table # s.table}]
    ELSE IF s.op = "CreateInheritanceTrigger"
    THEN IF \E g \in db.triggers : g.table = s.table
         THEN [db EXCEPT !.error = "already exists"]
         ELSE IF {s.table, s.parent} \subseteq db.tables
         THEN [db EXCEPT !.triggers = db.triggers \cup {[table |-> s.table, parent |-> s.parent]}]
         ELSE [db EXCEPT !.error = "does not exist"]
    ELSE IF s.op = "DropView"
    THEN [db EXCEPT !.views = {v \in db.views : v.name # s.name}]
    ELSE IF \E v \in db.views : v.name = s.name
         THEN [db EXCEPT !.error = "already exists"]
         ELSE IF Range(s.select.from) \subseteq db.tables
         THEN [db EXCEPT !.views = db.views \cup {[name |-> s.name, select |-> s.select]}]
         ELSE [db EXCEPT !.error = "does not exist"]

RECURSIVE execute_all(_, _)
\* the database after the statements of a list, up to the first one refused
execute_all(db, s) ==
    IF s = <<>> \/ db.error # "none" THEN db
    ELSE execute_all([execute(db, Head(s)) EXCEPT !.done = Append(db.done, Head(s))], Tail(s))

MaxPasses == 2

\* ConfiguredDbModule.create()
create ==
    LET sent == loop_statements(processing_order(roots(subclasses(Base))))
        db == execute_all([tables |-> dbtables \cup metadata, views |-> views,
                           triggers |-> triggers, done |-> <<create_all(metadata)>>,
                           error |-> "none"],
                          sent.stmts)
    IN  /\ passes < MaxPasses
        /\ classes # <<>>
        /\ dbtables' = dbtables \cup metadata
        /\ ddl' = db.done
        /\ views' = db.views
        /\ triggers' = db.triggers
        /\ raised' = IF db.error # "none" THEN db.error ELSE sent.error
        /\ passes' = passes + 1
        /\ snapshot' = IF passes = 0
                       THEN [classes |-> classes, views |-> db.views, triggers |-> db.triggers]
                       ELSE snapshot
        /\ UNCHANGED <<classes, regresult>>
        /\ UNCHANGED <<store, metadata, callvars, concvars, rowvars>>

\* the garbage collector frees the classes nothing but the class tree
\* refers to: those whose class statement raised
gc_collect ==
    /\ \E k \in DOMAIN classes : classes[k].rejected
    /\ classes' = SelectSeq(classes, LAMBDA c : ~c.rejected)
    /\ UNCHANGED <<regresult, ddl, views, triggers, passes, snapshot, raised>>
    /\ UNCHANGED <<store, metadata, dbtables, callvars, concvars, rowvars>>

InitSchema ==
    /\ store = [i \in Ids |-> NoRow]
    /\ metadata = {}
    /\ dbtables = {}
    /\ NoCall
    /\ NoSessions
    /\ NoSchema

NextSchema ==
    \/ \E n \in ClassNames, p \in {Base} \cup ClassNames, decl \in Decls, columns \in DeclColumns :
         declare(n, p, decl, columns)
    \/ gc_collect
    \/ create

SpecSchema == InitSchema /\ [][NextSchema]_vars

\* ------------------------------------------------ class statements only
\* The class statements of a program, with everything __score_db__ and
\* __mapper_args__ can say that set_config and set_id look at.
NextReg ==
    \/ \E n \in ClassNames, p \in {Base} \cup ClassNames, decl \in RegDecls :
         declare(n, p, decl, {})
    \/ gc_collect

SpecReg == InitSchema /\ [][NextReg]_vars

\* ------------------------------------ rows and the cascade of a DELETE
MaxRowId == 1
RowIds == 1..MaxRowId

\* the class statements of a joined-table hierarchy
JoinedDecls == [inheritance : {"absent", "joined-table"}, type_column : {"absent"},
                type_name : {NoTypeName}, primary_key : {FALSE}, other_base : {Base}]

\* the tables an object of class n has a row in: that of its class and
\* those of its parents, all under the same id
object_tables(n) == {table_of(n)} \cup Range(parent_tables(n))

\* session.add(<n>(id=i)) and flush: one row per table of the object
insert_row(n, i) ==
    /\ passes > 0 /\ raised = "none"
    /\ fired = {}
    /\ n \in registered
    /\ \A t \in object_tables(n) : <<t, i>> \notin tablerows
    /\ tablerows' = tablerows \cup {<<t, i>> : t \in object_tables(n)}
    /\ deleted' = NoDelete
    /\ cascaded' = {}
    /\ UNCHANGED fired
    /\ UNCHANGED <<store, metadata, dbtables, callvars, concvars, schemavars>>

\* a row of the table of a subclass references the row i of table t: the
\* id of a joined-table subclass is a foreign key to the id of its parent
referenced(t, i) ==
    \E m \in registered :
        cls(m).id.foreign_key = t /\ <<cls2tbl(m), i>> \in tablerows

\* DELETE FROM <t> WHERE id = <i>; the trigger of t, if it has one, is
\* to run for the deleted row.  The engine enforces the foreign keys and
\* refuses to delete a row that is referenced.
delete_row(t, i) ==
    /\ passes > 0 /\ raised = "none"
    /\ fired = {}
    /\ <<t, i>> \in tablerows
    /\ ~referenced(t, i)
    /\ tablerows' = tablerows \ {<<t, i>>}
    /\ fired' = IF \E g \in triggers : g.table = t THEN {<<t, i>>} ELSE {}
    /\ deleted' = <<t, i>>
    /\ cascaded' = {}
    /\ UNCHANGED <<store, metadata, dbtables, callvars, concvars, schemavars>>

\* a trigger that deletes from its own table
trigger_body_on_own_table(g, i) == {<<g.table, i>>}

\* the body of trigger g for a deleted row with id i:
\* DELETE FROM {parent} WHERE id = OLD.id
trigger_body(g, i) == {<<g.parent, i>>}

\* the engine runs the trigger of a deleted row; the rows its body
\* deletes fire the triggers of their own tables
fire ==
    \E r \in fired :
        LET g == CHOOSE h \in triggers : h.table = r[1]
            gone == trigger_body(g, r[2]) \cap tablerows
        IN  /\ tablerows' = tablerows \ gone
            /\ fired' = (fired \ {r})
                           \cup {d \in gone : \E h \in triggers : h.table = d[1]}
            /\ cascaded' = cascaded \cup gone
            /\ UNCHANGED deleted
            /\ UNCHANGED <<store, metadata, dbtables, callvars, concvars, schemavars>>

NextCascade ==
    \/ \E n \in ClassNames, p \in {Base} \cup ClassNames, decl \in JoinedDecls :
         declare(n, p, decl, {})
    \/ fired = {} /\ create
    \/ \E n \in ClassNames, i \in RowIds : insert_row(n, i)
    \/ \E n \in ClassNames, i \in RowIds : delete_row(cls2tbl(n), i)
    \/ fire

\* a DELETE statement returns when its triggers have run
SpecCascade == InitSchema /\ [][NextCascade]_vars /\ WF_vars(fire)

\* ------------------------------------------------------------ claims
Done == pc = "done"
Consumed == SubSeq(ids0, 1, Len(ids0) - Len(ids))
Existing(l) == SelectSeq(l, Exists)
Distinct(l) == Cardinality(Range(l)) = Len(l)
AllExist(l) == \A k \in 1..Len(l) : Exists(l[k])
Count(s, x) == Cardinality({k \in 1..Len(s) : s[k] = x})
SameBag(s, t) == /\ Len(s) = Len(t)
                 /\ \A x \in Range(s) \cup Range(t) : Count(s, x) = Count(t, x)
\* what "WHERE id IN l ORDER BY <expression>" can return, as objects
SortedResults(l) == {Objects(r) : r \in OrderedBy(InQuery(l))}
CountKind(kind) == Cardinality({k \in 1..Len(stmts) : stmts[k].kind = kind})
CeilDiv(a, b) == (a + b - 1) \div b

\* C1: order='_ids' with ignore_missing=True: what has been yielded is
\* always the consumed part of ids with the identifiers that have no row
\* removed and every other identifier replaced by its record, in request
\* order; the call ends by returning with all of ids consumed.
C1_RequestOrderIgnoreMissing ==
    (order = "_ids" /\ ignore_missing) =>
        /\ yielded = Objects(Existing(Consumed))
        /\ Done => (ids = <<>> /\ outcome = "returned")

\* three ids over two chunks, one of them missing, the two others asked
\* for in descending order
C1_Witness ==
    /\ Done /\ order = "_ids" /\ ignore_missing
    /\ Len(ids0) = 3 /\ yield_per = 2
    /\ ~AllExist(ids0)
    /\ Len(yielded) = 2 /\ yielded[1].id > yielded[2].id

\* C2 (as claimed): a custom order with len(ids) > yield_per gives the
\* caller the records of all requested ids that exist, in the order of
\* the sorted join.  Stated for the calls that return without raising, on
\* distinct ids.
C2_TempTableYieldsSorted ==
    (/\ Done /\ order = "expr" /\ Len(ids0) > yield_per /\ Distinct(ids0)
     /\ outcome = "returned") =>
        yielded \in SortedResults(ids0)

\* C3 (as claimed): with ignore_missing=False, in the modes None and
\* '_ids', a call with an id that has no row ends with IdNotFound carrying
\* the first such id of ids in request order.
C3_FailRaisesFirstMissing ==
    (Done /\ ~ignore_missing /\ order \in {"None", "_ids"} /\ ~AllExist(ids0)) =>
        /\ outcome = "IdNotFound"
        /\ carried = first_missing(ids0, {i \in Ids : Exists(i)})

\* C4 (as claimed): when the call ends with IdNotFound, nothing has been
\* yielded.
C4_NothingYieldedBeforeIdNotFound ==
    outcome = "IdNotFound" => yielded = <<>>

\* the number of ids in the chunks before the chunk of the first missing id
C4_BeforeFailingChunk ==
    LET p == Min({k \in 1..Len(ids0) : ~Exists(ids0[k])})
    IN  ((p - 1) \div yield_per) * yield_per

\* C4 (amended): when the call ends with IdNotFound, the records yielded
\* are exactly those of the chunks that precede the chunk holding the
\* first missing id (in request order when order='_ids'), and none of the
\* failing chunk or of a later one.
C4_YieldedBeforeIdNotFound ==
    outcome = "IdNotFound" =>
        /\ ~AllExist(ids0)
        /\ SameBag(yielded, Objects(SubSeq(ids0, 1, C4_BeforeFailingChunk)))
        /\ order = "_ids" => yielded = Objects(SubSeq(ids0, 1, C4_BeforeFailingChunk))

\* the missing id is in the second chunk: the first chunk has been yielded
C4_Witness ==
    /\ outcome = "IdNotFound"
    /\ Len(ids0) = 3 /\ yield_per = 2 /\ carried = ids0[3]
    /\ Len(yielded) = 2

\* C5 (as claimed): order='_ids' and every id of ids has a row: one record
\* per occurrence, at its position, whatever ignore_missing is.
C5_DuplicatesYieldPerOccurrence ==
    (Done /\ order = "_ids" /\ AllExist(ids0)) => yielded = Objects(ids0)

\* C6: order=None, distinct ids that all have a row: the call returns, and
\* the yielded records are those of the ids, each once.
C6_UnorderedSameSet ==
    (Done /\ order = "None" /\ Distinct(ids0) /\ AllExist(ids0)) =>
        /\ outcome = "returned"
        /\ Len(yielded) = Len(ids0)
        /\ Range(yielded) = {rec(i) : i \in Range(ids0)}

\* three ids over two chunks, returned in another order than asked for
C6_Witness ==
    /\ Done /\ order = "None" /\ Distinct(ids0) /\ AllExist(ids0)
    /\ Len(ids0) = 3 /\ yield_per = 2
    /\ yielded[1].id # ids0[1] /\ yielded[3].id = ids0[3]

\* C7 (as claimed): an empty ids yields nothing and sends no statement, in
\* every order mode.
C7_EmptyIdsNoQuery ==
    ids0 = <<>> => (yielded = <<>> /\ stmts = <<>>)

\* C8: every statement by_ids sends carries at most yield_per ids
\* (yield_per >= 1).
C8_StatementsBounded ==
    \A k \in 1..Len(stmts) : Len(stmts[k].ids) <= yield_per

\* the temporary-table path with a full insert batch and a shorter one
C8_Witness ==
    /\ Done /\ order = "expr" /\ Len(ids0) = 3 /\ yield_per = 2
    /\ \E j, k \in 1..Len(stmts) :
         /\ stmts[j].kind = "insert" /\ Len(stmts[j].ids) = yield_per
         /\ stmts[k].kind = "insert" /\ Len(stmts[k].ids) = 1

\* C9: a custom order with len(ids) <= yield_per: one statement, the
\* select of ids; no temporary table; and the call either raises from
\* test_missing having yielded nothing, or yields what that query returned,
\* in its order.
C9_SingleQuery ==
    (Done /\ order = "expr" /\ Len(ids0) <= yield_per) =>
        /\ stmts = <<Stmt("select", ids0)>>
        /\ tmp = NoTable /\ dbtables = {} /\ metadata = {TypeTable}
        /\ IF outcome = "returned"
           THEN yielded \in SortedResults(ids0)
           ELSE yielded = <<>> /\ ~ignore_missing

\* len(ids) == yield_per, and the order of the expression is neither the
\* order of the ids nor the request order
C9_Witness ==
    /\ Done /\ order = "expr" /\ Len(ids0) = yield_per /\ yield_per = 2
    /\ outcome = "returned" /\ Len(yielded) = 2
    /\ yielded[1].id > yielded[2].id /\ yielded[1].id = ids0[1]
    /\ yielded[1].name < yielded[2].name

\* C10 (as claimed): a custom order, n = len(ids) > yield_per,
\* ignore_missing=False and exactly one id without a row: IdNotFound with
\* that id, within ceil(n/yield_per) inserts, one sorting query and
\* ceil(n/yield_per) materializing queries.  Stated for distinct ids and
\* for the calls whose sorting query has run.
C10_TempTableFailNamesMissing ==
    (/\ Done /\ order = "expr" /\ Len(ids0) > yield_per /\ ~ignore_missing
     /\ Distinct(ids0) /\ CountKind("join") = 1
     /\ Cardinality({i \in Range(ids0) : ~Exists(i)}) = 1) =>
        /\ outcome = "IdNotFound"
        /\ carried \in Range(ids0) /\ ~Exists(carried)
        /\ CountKind("insert") <= CeilDiv(Len(ids0), yield_per)
        /\ CountKind("join") <= 1
        /\ CountKind("select") <= CeilDiv(Len(ids0), yield_per)

\* C11: by_ids leaves no temporary table behind: a temporary table is in
\* the database only while the call is inside its with block, and when the
\* call has ended, by returning or by an exception raised in the block,
\* the database holds none.
C11_TmpTableDropped ==
    /\ Done => dbtables = {}
    /\ dbtables # {} => (pc \in {"insert", "exit"} /\ dbtables = {tmp})

\* an insert raised inside the with block, and the table is gone
C11_Witness ==
    /\ Done /\ tmp # NoTable /\ outcome = "IntegrityError"
    /\ CountKind("insert") = 2 /\ CountKind("drop") = 1
    /\ tmp \notin dbtables

\* C12 (as claimed): the name a temporary-table call obtains is never one
\* that Base.metadata already holds, whatever the clock returns: no call
\* ends refused for registering a table under a key that is taken.
C12_NamesNeverCollide ==
    outcome # "InvalidRequestError"

\* C13 (as claimed): two concurrent by_ids calls on the temporary-table
\* path never hold a table of the same name, and the sorting query of a
\* call never sees an identifier the call did not insert itself.
C13_NoSharedNameOrRows ==
    /\ \A s, u \in Sessions :
         (s # u /\ sessions[s].table # NoTable /\ sessions[s].pc # "done"
                /\ sessions[u].pc # "done")
            => sessions[s].table # sessions[u].table
    /\ \A s \in Sessions : sessions[s].seen \subseteq Range(sessions[s].ids0)

\* the class a view is the view of
view_class(v) == Head(v.name)

\* the classes above class n whose table is not the table of n
Ancestors(n) == {m \in Range(parent_classes(n)) : table_class(m) # table_class(n)}

\* C14 (as claimed): where a column name is a column of a type's own table
\* and of the table of one of its ancestors, the column the type's view
\* projects under that name is the ancestor's, not the column of the
\* type's own table.
C14_AncestorColumnWins ==
    \A v \in views : \A col \in v.select.cols :
        (/\ col[1] \in table_columns(table_class(view_class(v)))
         /\ \E m \in Ancestors(view_class(v)) : col[1] \in table_columns(table_class(m)))
            => col[2] # table_of(view_class(v))

\* the columns class m declares itself: those of its class statement, the
\* id set_id gives it and the type column configure_inheritance gives a root
own_columns(m) ==
    cls(m).columns
    \cup (IF has_table(cls(m)) THEN {"id"} ELSE {})
    \cup (IF cls(m).parent = Base /\ cls(m).inheritance # "none"
          THEN {cls(m).type_column} ELSE {})

\* C15 (as claimed): the column names the view of a type projects are
\* exactly the names the type and its ancestors declare: none of them is
\* missing and no column only a sibling or a descendant declares appears.
C15_ViewProjectsOwnAndAncestorColumns ==
    \A v \in views :
        {col[1] : col \in v.select.cols}
            = UNION {own_columns(m) : m \in {view_class(v)} \cup Range(parent_classes(view_class(v)))}

\* every class statement so far has completed
NoneRejected == \A k \in DOMAIN classes : ~classes[k].rejected

\* create() has run on the class tree as it is now
Created == passes > 0 /\ snapshot.classes = classes

\* class n and the registered classes below it
Subtree(n) == {m \in registered : n \in {m} \cup Range(parent_classes(m))}

\* C16 (as claimed): in single-table mode, once create() has run, every
\* type has a view that selects from the root's table the rows whose
\* discriminator is the type's own tag or the tag of a type below it.
C16_SingleViewSelectsSubtree ==
    (Created /\ NoneRejected) =>
        \A n \in registered :
            cls(n).inheritance = "single-table" =>
                \E v \in views :
                    /\ v.name = Tail(cls2tbl(n))
                    /\ v.select.from = <<table_of(n)>>
                    /\ v.select.where = <<cls(table_class(n)).type_column,
                                          {cls(m).type_name : m \in Subtree(n)}>>

\* C17: a second create() on the same class tree is refused no statement
\* (nothing it creates exists already, nothing it uses is missing) and
\* leaves the views and triggers the first create() left.
C17_CreateTwiceIdempotent ==
    (passes >= 2 /\ snapshot.classes = classes) =>
        /\ raised \notin {"already exists", "does not exist"}
        /\ views = snapshot.views
        /\ triggers = snapshot.triggers

C17_Witness ==
    /\ passes = 2 /\ snapshot.classes = classes /\ raised = "none"
    /\ Len(classes) = 3
    /\ Cardinality(views) = 3 /\ Cardinality(triggers) = 2
    /\ views = snapshot.views /\ triggers = snapshot.triggers

\* the position of the first statement in the log equal to s, 0 if none
Position(s) ==
    IF \E k \in DOMAIN ddl : ddl[k] = s
    THEN CHOOSE k \in DOMAIN ddl : ddl[k] = s /\ \A j \in 1..(k - 1) : ddl[j] # s
    ELSE 0

\* the position at which the for loop of create() finished the trigger
\* of class n: that of the DROP VIEW that follows it, 0 if not reached
Processed(n) == Position(DropView(Tail(cls2tbl(n))))

\* C18: for every registered type create() has processed, the trigger of
\* its table was dropped, and a trigger was created right after the drop if
\* and only if the type has a parent; the trigger created deletes from the
\* table of the direct parent.
C18_TriggerDropThenCreateOnParent ==
    \A n \in registered :
        Processed(n) > 0 =>
            LET k == Processed(n) IN
            IF cls(n).parent = Base
            THEN ddl[k - 1] = DropInheritanceTrigger(table_of(n))
            ELSE /\ k > 2
                 /\ ddl[k - 2] = DropInheritanceTrigger(table_of(n))
                 /\ ddl[k - 1] = CreateInheritanceTrigger(table_of(n), table_of(cls(n).parent))

C18_Witness ==
    /\ passes > 0 /\ Len(classes) = 3 /\ NoneRejected
    /\ cls(2).parent = 1 /\ cls(3).parent = 2
    /\ cls(1).inheritance = "joined-table"
    /\ Processed(3) > 0
    /\ [table |-> cls2tbl(3), parent |-> cls2tbl(2)] \in triggers
    /\ \A g \in triggers : g.table # cls2tbl(1)

\* the number of classes between class n and Base
Depth(n) == Len(parent_classes(n))

\* the tables a statement of the log needs
TablesUsed(s) ==
    IF s.op \in {"DropInheritanceTrigger", "CreateInheritanceTrigger"}
    THEN {s.table, s.parent} \ {NoTable}
    ELSE IF s.op \in {"DropView", "CreateView"} THEN Range(s.select.from)
    ELSE {}

\* C19: create() takes the types breadth-first from the roots: a type's
\* statements are executed after those of every type less deep than it
\* (its parent among them), and every table a trigger or view statement
\* needs, the type's own and its ancestors', is created before the
\* statement is executed.
C19_BreadthFirstAfterTables ==
    /\ \A n, m \in registered :
          (Processed(n) > 0 /\ Processed(m) > 0 /\ Depth(n) < Depth(m))
              => Processed(n) < Processed(m)
    /\ \A m \in registered :
          (Processed(m) > 0 /\ cls(m).parent # Base)
              => (Processed(cls(m).parent) > 0 /\ Processed(cls(m).parent) < Processed(m))
    /\ \A k \in DOMAIN ddl :
          \A tbl \in TablesUsed(ddl[k]) :
              \E j \in 1..(k - 1) : ddl[j].op = "create_all" /\ tbl \in ddl[j].tables
    /\ raised # "does not exist"

C19_Witness ==
    /\ passes > 0 /\ Len(classes) = 3 /\ NoneRejected /\ raised = "none"
    /\ cls(1).parent = Base /\ cls(2).parent = 1 /\ cls(3).parent = Base
    /\ cls(1).inheritance = "joined-table"
    /\ Processed(1) > 0 /\ Processed(1) < Processed(3) /\ Processed(3) < Processed(2)
    /\ Cardinality(views) >= 2

\* C20 (as claimed): a class statement whose inheritance differs from its
\* parent's, or whose parent has inheritance None, is refused, so that no
\* registered type differs from its parent, and the refused type is no
\* part of the hierarchy: create() executes no statement for it.
C20_RejectedTypeLeavesHierarchy ==
    /\ \A n \in registered :
          cls(n).parent # Base =>
              /\ cls(cls(n).parent).inheritance # "none"
              /\ cls(n).inheritance = cls(cls(n).parent).inheritance
    /\ \A k \in DOMAIN classes :
          classes[k].rejected => (regresult = "ConfigurationError" \/ k < Len(classes))
    /\ \A k \in DOMAIN ddl :
          ddl[k].op \in {"DropView", "CreateView"} => Head(ddl[k].name) \in registered

RECURSIVE hierarchy_root(_)
\* the class at the top of the hierarchy of class n
hierarchy_root(n) == IF cls(n).parent = Base THEN n ELSE hierarchy_root(cls(n).parent)

\* C21 (as claimed): no two registered types of one hierarchy have the
\* same type_name, be it declared or derived from the class name: the
\* class statement that would give a second type the tag is refused.
C21_TypeNamesUnique ==
    \A n, m \in registered :
        (n # m /\ hierarchy_root(n) = hierarchy_root(m))
            => cls(n).type_name # cls(m).type_name

\* C22 (as claimed): no type below the root of a single-table hierarchy
\* is registered with a primary key named in its __mapper_args__: the
\* class statement is refused with ConfigurationError.
C22_SinglePrimaryKeyRejected ==
    \A n \in registered :
        (cls(n).inheritance = "single-table" /\ cls(n).parent # Base)
            => ~cls(n).primary_key

\* C23 (as claimed): the table of every registered joined-table type with
\* a parent has an id column that is its primary key and references the
\* id of the table of its direct parent, however the type is declared.
C23_JoinedIdReferencesParent ==
    \A n \in registered :
        (cls(n).inheritance = "joined-table" /\ cls(n).parent # Base)
            => /\ cls(n).id.column
               /\ cls(n).id.primary_key
               /\ cls(n).id.foreign_key = cls2tbl(cls(n).parent)

\* C24 (as claimed): the type_column of every registered type is that of
\* the root of its hierarchy, and the filter of every single-table view is
\* on the root's type column.
C24_TypeColumnFixedByRoot ==
    /\ \A n \in registered :
          cls(n).type_column = cls(hierarchy_root(n)).type_column
    /\ \A v \in views :
          v.select.where # <<>>
              => v.select.where[1] = cls(hierarchy_root(view_class(v))).type_column

\* C25: every registered type has at most one parent, which is its only
\* mapped base, and the inheritance of its parent and of the root of its
\* hierarchy; a type with inheritance None has no parent and no child.
C25_OneParentSameInheritance ==
    \A n \in registered :
        /\ Cardinality(cls(n).bases) <= 1
        /\ cls(n).bases = {cls(n).parent} \ {Base}
        /\ cls(n).parent # Base
               => /\ cls(n).inheritance = cls(cls(n).parent).inheritance
                  /\ cls(n).inheritance = cls(hierarchy_root(n)).inheritance
        /\ cls(n).inheritance = "none"
               => /\ cls(n).parent = Base
                  /\ \A m \in registered : cls(m).parent # n

\* a single-table subclass is registered and a class with two mapped bases
\* was refused
C25_Witness ==
    /\ \E n \in registered :
          cls(n).parent # Base /\ cls(n).inheritance = "single-table"
    /\ \E k \in DOMAIN classes :
          classes[k].rejected /\ Cardinality(classes[k].bases) = 2

\* C26 (as claimed): a single-table subclass has no table and no id column
\* of its own and uses the table of its root; every root and every
\* joined-table type has the table named after its class and an id column
\* of its own, so that there are as many tables as roots and joined-table
\* subclasses.
C26_TablesAndIdsPerType ==
    /\ \A n \in registered :
          IF cls(n).inheritance = "single-table" /\ cls(n).parent # Base
          THEN /\ cls2tbl(n) \notin metadata
               /\ ~cls(n).id.column
               /\ table_of(n) = cls2tbl(hierarchy_root(n))
          ELSE /\ cls2tbl(n) \in metadata
               /\ table_of(n) = cls2tbl(n)
               /\ cls(n).id.column
    /\ Cardinality(metadata) =
          Cardinality({n \in registered : cls(n).parent = Base})
          + Cardinality({n \in registered : cls(n).parent # Base
                                            /\ cls(n).inheritance = "joined-table"})

\* C27 (as claimed): consuming by_ids with order None or '_ids' comes to
\* an end, whatever integer yield_per is.
C27_ByIdsTerminates == <>(pc = "done")

\* C28 (as claimed): with ignore_missing=False and order None or '_ids',
\* a call whose identifiers all have a record, duplicates included, ends
\* by returning and raises nothing.
C28_NoErrorWhenAllExist ==
    (Done /\ ~ignore_missing /\ order \in {"None", "_ids"} /\ AllExist(ids0))
        => outcome = "returned"

\* create() has run, on a class tree without a refused class statement
CreatedWithoutRejected ==
    passes > 0 /\ \A k \in DOMAIN snapshot.classes : ~snapshot.classes[k].rejected

\* C29 (as claimed): where no class statement was refused, create() sends
\* no CreateInheritanceTrigger whose table is its parent table, every
\* trigger installed deletes from another table than its own, and the
\* table of a root has no trigger.
C29_TriggerOnOtherTable ==
    CreatedWithoutRejected =>
        /\ \A k \in DOMAIN ddl :
              ddl[k].op = "CreateInheritanceTrigger" => ddl[k].table # ddl[k].parent
        /\ \A g \in triggers :
              /\ g.table # g.parent
              /\ \A n \in registered : cls(n).parent = Base => g.table # cls2tbl(n)

\* the tables of the parents of class n, of a class that is registered
ancestor_tables(n) == IF n \in registered THEN Range(parent_tables(n)) ELSE {}

\* C30: in a joined-table hierarchy that create() has run on, after the
\* row with id i is deleted from the table of a type, the tables of its
\* parents come to hold no row with id i; and no table of a root has a
\* trigger, so that the chain ends there.
C30_DeleteCascadesToAncestors ==
    /\ \A n \in ClassNames, i \in RowIds :
          (deleted = <<cls2tbl(n), i>>)
              ~> (\A t \in ancestor_tables(n) : <<t, i>> \notin tablerows)
    /\ [](\A g \in triggers :
             \A n \in registered : cls(n).parent = Base => g.table # cls2tbl(n))

\* the row of the class at the end of a chain of three was deleted, and
\* the triggers have deleted the rows of its parent and of its grandparent
C30_Witness ==
    \E n \in registered, i \in RowIds :
        /\ Len(parent_tables(n)) = 2
        /\ deleted = <<cls2tbl(n), i>>
        /\ fired = {}
        /\ cascaded = {<<t, i>> : t \in Range(parent_tables(n))}

====
